---- MODULE Spec2Model ----
(***************************************************************************)
(* Model of rtlobs/collect.py: the four integration drivers                *)
(* run_total_power_int, dicke, run_spectrum_int and run_fswitch_int, the   *)
(* handle they open through get_sdr or borrow from the caller, and the     *)
(* block and dwell bookkeeping they do.                                    *)
(*                                                                         *)
(* Real-valued parameters are kept exact: rate and fswitch are integers    *)
(* (Hz), t_int is the rational tNum / TDen (s), so int(sdr.rs * t_int) is  *)
(* (rs * tNum) \div TDen.  dicke is modelled with plot=False.              *)
(***************************************************************************)
EXTENDS Integers, Naturals, Sequences, FiniteSets, TLC

\* ---- bounds of the model ----
MaxRate == 4
MaxTNum == 3
MaxFswitch == 3
MaxNumSamp == 3
MaxPower == 1

\* t_int is counted in units of 1/TDen second
TDen == 2

Drivers == {"run_total_power_int", "dicke", "run_spectrum_int", "run_fswitch_int"}

VARIABLES
    pc,         \* position of the driver call
    driver,     \* which entry point is running
    supplied,   \* TRUE iff the caller passed an open handle (sdr is not None)
    num_samp, rate, tNum, fswitch,   \* arguments of the call
    sdrBound,   \* the local name sdr is not None
    close_sdr,  \* "unbound", "true" or "false"
    devOpen,    \* the device behind the handle is open
    sdrRs,      \* sdr.rs of the handle
    sdrFc,      \* sdr.fc of the handle: "fc", "fthrow" or "prev"
    gpio,       \* level of GPIO 4
    exc,        \* exception in flight, "none" if none
    N, N_dwell, num_loops, num_dwells, i, j,  \* locals of the driver
    cnt, cntOn, cntOff,              \* local block counts
    p_tot, g_cnt,                    \* module globals p_tot and cnt
    num_calls,                       \* f._num_calls of limit_calls
    canceled,                        \* cancel_read_async was called
    ts, ps, noise_on, flipflop,      \* locals of dicke
    gpioAtRead,                      \* dicke: level of GPIO 4 at each block read
    gpioAtClose,                     \* level of GPIO 4 at each sdr.close()
    blocks,     \* run_total_power_int: power of each block given to the callback
    stale,      \* run_total_power_int: what the preceding call left in the globals
    sess,       \* concurrent sessions of run_total_power_int: their locals
    fin,        \* one spectrum being accumulated and finalized: its arrays
    result,     \* what the caller receives
    p_avg,      \* run_total_power_int: <<p_tot, num_samp * cnt>>, the quotient returned
    \* history of the current call
    opens,      \* RtlSdr() constructions that succeeded
    closeCalls, \* calls of sdr.close()
    cfgWrites,  \* writes of sdr.rs / sdr.fc / sdr.gain by the driver
    reads,      \* blocks requested from the handle
    hwOps,      \* every interaction with the hardware
    dwellLog,   \* run_fswitch_int: one <<frequency, blocks read>> per dwell
    fswLog,     \* run_fswitch_int: the retunes and accumulated reads, in order
    centerOn, centerOff   \* run_fswitch_int: what is added to freqs_on / freqs_off

cfgVars == <<driver, supplied, num_samp, rate, tNum, fswitch>>
sdrVars == <<sdrBound, close_sdr, devOpen, sdrRs, sdrFc, gpio>>
locVars == <<N, N_dwell, num_loops, num_dwells, i, j, cnt, cntOn, cntOff>>
glbVars == <<p_tot, g_cnt, num_calls, canceled>>
dckVars == <<ts, ps, noise_on, flipflop, gpioAtRead>>
hstVars == <<opens, closeCalls, cfgWrites, reads, hwOps, dwellLog>>
fswVars == <<fswLog, centerOn, centerOff>>
vars == <<pc, cfgVars, sdrVars, locVars, glbVars, dckVars, hstVars, fswVars,
          gpioAtClose, blocks, stale, sess, fin, exc, result, p_avg>>

\* int(x) of a non-negative quotient a / b
Floor(a, b) == a \div b

\* int(sdr.rs * t_int)
NumSamples(rs, t) == Floor(rs * t, TDen)

\* two sessions are enough to share the module globals
Sessions == {1, 2}

\* a session that is not running
NoSession == [at |-> "off", ns |-> 1, n |-> 0, calls |-> 0, canceled |-> FALSE,
              ownSum |-> 0, ownCnt |-> 0, avg |-> <<>>]

\* the module has been imported and nothing has been called
InitSeq ==
    /\ pc = "idle"
    /\ driver = "run_spectrum_int" /\ supplied = FALSE
    /\ num_samp = 1 /\ rate = 1 /\ tNum = 1 /\ fswitch = 1
    /\ sdrBound = FALSE /\ close_sdr = "unbound" /\ devOpen = FALSE
    /\ sdrRs = 1 /\ sdrFc = "prev" /\ gpio = 0
    /\ exc = "none"
    /\ N = 0 /\ N_dwell = 0 /\ num_loops = 0 /\ num_dwells = 0 /\ i = 0 /\ j = 0
    /\ cnt = 0 /\ cntOn = 0 /\ cntOff = 0
    /\ p_tot = 0 /\ g_cnt = 0 /\ num_calls = 0 /\ canceled = FALSE
    /\ ts = <<>> /\ ps = <<>> /\ noise_on = <<>> /\ flipflop = 1
    /\ gpioAtRead = <<>> /\ gpioAtClose = <<>> /\ blocks = <<>>
    /\ stale = "nothing"
    /\ result = "none" /\ p_avg = <<>>
    /\ opens = 0 /\ closeCalls = 0 /\ cfgWrites = 0 /\ reads = 0 /\ hwOps = 0
    /\ dwellLog = <<>>
    /\ fswLog = <<>> /\ centerOn = "none" /\ centerOff = "none"

\* no spectrum is being accumulated
NoFin == [at |-> "off", d |-> "run_spectrum_int", nbins |-> 1, fs |-> 1, center |-> 0,
          plan |-> 0, done |-> 0, px |-> <<0>>, freqs |-> <<0>>, p_xx |-> <<0>>,
          binFreqs |-> <<>>, binSums |-> <<>>, p_mean |-> <<>>, p_hz |-> <<>>]

Init == InitSeq /\ sess = [s \in Sessions |-> NoSession] /\ fin = NoFin

\* ---- decisions of the code, one operator each ----

\* variant: the argument check is skipped
ConfigOk_skipped(t, fs) == TRUE

\* assert t_int >= 2.0 * (1.0/fswitch)
ConfigOk(t, fs) == t * fs >= 2 * TDen

\* variant: close_sdr = True on both branches
CloseSdrFlag_always(sup) == "true"

\* if sdr is None: ... close_sdr = True / else: close_sdr = False
CloseSdrFlag(sup) == IF sup THEN "false" ELSE "true"

\* if close_sdr: sdr.close()     (last statement of the try block)
TryCloses(cs) == cs = "true"

\* variant: no close in the finally clause
FinallyCloses_never(bound, cs) == FALSE

\* finally: if sdr is not None and close_sdr: sdr.close()
FinallyCloses(bound, cs) == bound /\ cs = "true"

\* helpers.limit_calls(N / num_samp): the wrapper counts the invocation and
\* cancels the stream once calls >= N / num_samp (a true division, not a
\* floor), then still hands the block to the callback.
LimitReached(calls, n, ns) == calls * ns >= n

\* variant: the call returns while the stream is still delivering
StreamOver_early(c) == TRUE

\* sdr.read_samples_async(...) blocks until the stream has been canceled
StreamOver(c) == c

\* for i in range(N // num_samp)                              (dicke)
DickeLoops(n, ns) == n \div ns

\* variant: the extra block is dropped
SpectrumLoops_floor(n, ns) == Floor(n, ns)

\* num_loops = int(N / num_samp) + 1                          (run_spectrum_int)
SpectrumLoops(n, ns) == Floor(n, ns) + 1

\* N_dwell = int(sdr.rs * (1.0 / fswitch))
DwellSamples(rs, fs) == Floor(rs, fs)

\* variant: blocks per dwell rounded up
DwellLoops_ceil(nd, ns) == (nd + ns - 1) \div ns

\* num_loops = N_dwell // num_samp                            (run_fswitch_int)
DwellLoops(nd, ns) == nd \div ns

\* num_dwells = N // N_dwell
NumDwells(n, nd) == n \div nd

\* variant: the parity test is inverted
Tick_odd(k) == k % 2 = 1

\* tick = (i % 2 == 0)
Tick(k) == k % 2 = 0

\* variant: the else branch of the retune is lost
TuneTarget_fixed(k) == "fc"

\* if tick: sdr.fc = fc / else: sdr.fc = fthrow
TuneTarget(k) == IF Tick(k) THEN "fc" ELSE "fthrow"

\* variant: every block is added to the on-accumulator
Accumulator_on(k) == "on"

\* if tick: ... p_xx_on += p_xx / else: ... p_xx_off += p_xx
Accumulator(k) == IF Tick(k) THEN "on" ELSE "off"

\* freqs_on += fc; freqs_off += fthrow
CenterOf(acc) == IF acc = "on" THEN "fc" ELSE "fthrow"

\* variant: the two branches of the GPIO write are swapped
GpioLevel_swapped(ff) == 1 - ff

\* if flipflop: sdr.set_gpio_bit(4, 1) / else: sdr.set_gpio_bit(4, 0)
GpioLevel(ff) == IF ff # 0 THEN 1 ELSE 0

Powers == 0 .. MaxPower

\* ---- raising: the except clause prints and re-raises, finally runs next ----
\* variant: the error is noted and the loop goes on
Raise_continue(e) == /\ exc' = e
                     /\ UNCHANGED <<pc, result, p_avg>>

Raise(e) == /\ exc' = e
            /\ pc' = "finally"
            /\ result' = "none"
            /\ p_avg' = <<>>

\* ---- entry of a call ----
\* The caller picks the entry point and its arguments; a supplied handle is an
\* open device with whatever rate it was left at.  Only run_fswitch_int takes
\* fswitch, and it checks its arguments before the try block.
Call ==
    /\ pc = "idle"
    /\ UNCHANGED sess
    /\ UNCHANGED fin
    /\ UNCHANGED blocks
    /\ UNCHANGED gpioAtClose
    /\ UNCHANGED fswVars
    /\ \E d \in Drivers, sup \in BOOLEAN, ns \in 1 .. MaxNumSamp,
          r \in 1 .. MaxRate, t \in 1 .. MaxTNum, fs \in 1 .. MaxFswitch,
          rs0 \in 1 .. MaxRate :
        /\ sup \/ rs0 = 1
        /\ d = "run_fswitch_int" \/ fs = 1
        /\ driver' = d /\ supplied' = sup /\ num_samp' = ns
        /\ rate' = r /\ tNum' = t /\ fswitch' = fs
        /\ sdrBound' = sup /\ devOpen' = sup
        /\ sdrRs' = rs0
        /\ stale' = IF d = "run_total_power_int" THEN stale ELSE "nothing"
        /\ IF d = "run_fswitch_int" /\ ~ConfigOk(t, fs)
             THEN pc' = "raised" /\ exc' = "AssertionError"
             ELSE pc' = "try" /\ exc' = "none"
    /\ UNCHANGED <<close_sdr, sdrFc, gpio, locVars, glbVars, dckVars, hstVars>>
    /\ UNCHANGED <<result, p_avg>>

\* The call is over: its locals and the handle go out of scope, the module
\* globals p_tot and cnt stay as the call left them.
CallOver ==
    /\ pc \in {"returned", "raised"}
    /\ UNCHANGED sess
    /\ UNCHANGED fin
    /\ pc' = "idle"
    /\ driver' = "run_spectrum_int" /\ supplied' = FALSE
    /\ num_samp' = 1 /\ rate' = 1 /\ tNum' = 1 /\ fswitch' = 1
    /\ sdrBound' = FALSE /\ close_sdr' = "unbound" /\ devOpen' = FALSE
    /\ sdrRs' = 1 /\ sdrFc' = "prev" /\ gpio' = 0
    /\ exc' = "none"
    /\ N' = 0 /\ N_dwell' = 0 /\ num_loops' = 0 /\ num_dwells' = 0
    /\ i' = 0 /\ j' = 0 /\ cnt' = 0 /\ cntOn' = 0 /\ cntOff' = 0
    /\ ts' = <<>> /\ ps' = <<>> /\ noise_on' = <<>> /\ flipflop' = 1
    /\ gpioAtRead' = <<>> /\ gpioAtClose' = <<>> /\ blocks' = <<>>
    /\ result' = "none" /\ p_avg' = <<>>
    /\ opens' = 0 /\ closeCalls' = 0 /\ cfgWrites' = 0 /\ reads' = 0
    /\ hwOps' = 0 /\ dwellLog' = <<>>
    /\ fswLog' = <<>> /\ centerOn' = "none" /\ centerOff' = "none"
    \* the decorated callback of line 97 and its call count belong to the call
    /\ num_calls' = 0 /\ canceled' = FALSE
    /\ UNCHANGED <<p_tot, g_cnt>>
    /\ stale' = CASE driver # "run_total_power_int" \/ (p_tot = 0 /\ g_cnt = 0) -> "nothing"
                  [] pc = "raised" /\ Len(blocks) >= 1 -> "aborted sum"
                  [] OTHER -> "sum"

\* ---- if sdr is None: sdr = get_sdr(rate, fc, gain) ... ----
\* get_sdr constructs RtlSdr() and writes rs, fc and gain; any of the four
\* steps may fail, and then get_sdr does not return a handle.
GetSdr ==
    /\ pc = "try"
    /\ UNCHANGED sess
    /\ UNCHANGED stale
    /\ UNCHANGED fin
    /\ UNCHANGED blocks
    /\ UNCHANGED gpioAtClose
    /\ UNCHANGED fswVars
    /\ UNCHANGED <<cfgVars, locVars, glbVars, dckVars>>
    /\ UNCHANGED <<gpio, closeCalls, reads, dwellLog>>
    /\ IF supplied
         THEN /\ close_sdr' = CloseSdrFlag(supplied)
              /\ pc' = "setup"
              /\ UNCHANGED <<sdrBound, devOpen, sdrRs, sdrFc, exc, result, p_avg,
                             opens, cfgWrites, hwOps>>
         ELSE \E outcome \in {"ok", "open_fails", "rs_fails", "fc_fails", "gain_fails"} :
              /\ hwOps' = hwOps + 1
              /\ opens' = IF outcome = "open_fails" THEN opens ELSE opens + 1
              /\ devOpen' = (outcome # "open_fails")
              /\ sdrRs' = IF outcome \in {"ok", "fc_fails", "gain_fails"} THEN rate ELSE sdrRs
              /\ sdrFc' = IF outcome \in {"ok", "gain_fails"} THEN "fc" ELSE sdrFc
              /\ cfgWrites' = CASE outcome = "ok" -> 3
                                [] outcome = "gain_fails" -> 2
                                [] outcome = "fc_fails" -> 1
                                [] OTHER -> 0
              /\ IF outcome = "ok"
                   THEN /\ sdrBound' = TRUE
                        /\ close_sdr' = CloseSdrFlag(supplied)
                        /\ pc' = "setup"
                        /\ UNCHANGED <<exc, result, p_avg>>
                   ELSE /\ Raise("IOError")
                        /\ UNCHANGED <<sdrBound, close_sdr>>

\* ---- sdr.rs = rate; sdr.fc = fc; sdr.gain = gain ----
\* variant: only the sample rate is written
WriteConfig_rateOnly(k) ==
    /\ sdrRs' = IF k >= 1 THEN rate ELSE sdrRs
    /\ sdrFc' = sdrFc
    /\ cfgWrites' = cfgWrites + (IF k >= 1 THEN 1 ELSE 0)
    /\ hwOps' = hwOps + 1

\* The three writes dicke, run_spectrum_int and run_fswitch_int make on the
\* handle, own or supplied; k of them are done when one fails (k = 3: none).
WriteConfig(k) ==
    /\ sdrRs' = IF k >= 1 THEN rate ELSE sdrRs
    /\ sdrFc' = IF k >= 2 THEN "fc" ELSE sdrFc
    /\ cfgWrites' = cfgWrites + k
    /\ hwOps' = hwOps + 1

\* ---- run_total_power_int: N, reset of the globals, the decorated callback ----
\* variant: the globals keep what the previous call left
GlobalReset_kept(old) == old

\* p_tot = 0.0; cnt = 0
GlobalReset(old) == 0

SetupTotalPower ==
    /\ pc = "setup" /\ driver = "run_total_power_int"
    /\ UNCHANGED sess
    /\ UNCHANGED stale
    /\ UNCHANGED fin
    /\ UNCHANGED blocks
    /\ UNCHANGED gpioAtClose
    /\ UNCHANGED fswVars
    /\ N' = NumSamples(sdrRs, tNum)
    /\ p_tot' = GlobalReset(p_tot) /\ g_cnt' = GlobalReset(g_cnt)
    /\ num_calls' = 0 /\ canceled' = FALSE
    /\ pc' = "stream"
    /\ UNCHANGED <<cfgVars, sdrVars, dckVars, hstVars, exc, result, p_avg>>
    /\ UNCHANGED <<N_dwell, num_loops, num_dwells, i, j, cnt, cntOn, cntOff>>

\* ---- dicke: configure, N, set_gpio_output(4), empty lists ----
SetupDicke ==
    /\ pc = "setup" /\ driver = "dicke"
    /\ UNCHANGED sess
    /\ UNCHANGED stale
    /\ UNCHANGED fin
    /\ UNCHANGED blocks
    /\ UNCHANGED gpioAtClose
    /\ UNCHANGED fswVars
    /\ UNCHANGED <<cfgVars, glbVars, dckVars>>
    /\ UNCHANGED <<sdrBound, close_sdr, devOpen, gpio>>
    /\ UNCHANGED <<N_dwell, num_loops, num_dwells, i, j, cnt, cntOn, cntOff>>
    /\ UNCHANGED <<opens, closeCalls, reads, dwellLog>>
    /\ \E k \in 0 .. 3, gpioOk \in BOOLEAN :
        /\ WriteConfig(k)
        /\ IF k = 3 /\ gpioOk
             THEN /\ N' = NumSamples(rate, tNum)
                  /\ pc' = "loop"
                  /\ UNCHANGED <<exc, result, p_avg>>
             ELSE /\ Raise("IOError")
                  /\ N' = IF k = 3 THEN NumSamples(rate, tNum) ELSE N

\* ---- run_spectrum_int: configure, N, num_loops ----
SetupSpectrum ==
    /\ pc = "setup" /\ driver = "run_spectrum_int"
    /\ UNCHANGED sess
    /\ UNCHANGED stale
    /\ UNCHANGED fin
    /\ UNCHANGED blocks
    /\ UNCHANGED gpioAtClose
    /\ UNCHANGED fswVars
    /\ UNCHANGED <<cfgVars, glbVars, dckVars>>
    /\ UNCHANGED <<sdrBound, close_sdr, devOpen, gpio>>
    /\ UNCHANGED <<N_dwell, num_dwells, i, j, cnt, cntOn, cntOff>>
    /\ UNCHANGED <<opens, closeCalls, reads, dwellLog>>
    /\ \E k \in 0 .. 3 :
        /\ WriteConfig(k)
        /\ IF k = 3
             THEN /\ N' = NumSamples(rate, tNum)
                  /\ num_loops' = SpectrumLoops(NumSamples(rate, tNum), num_samp)
                  /\ pc' = "loop"
                  /\ UNCHANGED <<exc, result, p_avg>>
             ELSE /\ Raise("IOError")
                  /\ UNCHANGED <<N, num_loops>>

\* ---- run_fswitch_int: configure, N, N_dwell, num_loops, num_dwells ----
\* N // N_dwell raises ZeroDivisionError when rate < fswitch.
SetupFswitch ==
    /\ pc = "setup" /\ driver = "run_fswitch_int"
    /\ UNCHANGED sess
    /\ UNCHANGED stale
    /\ UNCHANGED fin
    /\ UNCHANGED blocks
    /\ UNCHANGED gpioAtClose
    /\ UNCHANGED fswVars
    /\ UNCHANGED <<cfgVars, glbVars, dckVars>>
    /\ UNCHANGED <<sdrBound, close_sdr, devOpen, gpio>>
    /\ UNCHANGED <<i, j, cnt, cntOn, cntOff>>
    /\ UNCHANGED <<opens, closeCalls, reads, dwellLog>>
    /\ \E k \in 0 .. 3 :
        /\ WriteConfig(k)
        /\ IF k < 3
             THEN /\ Raise("IOError")
                  /\ UNCHANGED <<N, N_dwell, num_loops, num_dwells>>
             ELSE /\ N' = NumSamples(rate, tNum)
                  /\ N_dwell' = DwellSamples(rate, fswitch)
                  /\ num_loops' = DwellLoops(DwellSamples(rate, fswitch), num_samp)
                  /\ IF DwellSamples(rate, fswitch) = 0
                       THEN /\ Raise("ZeroDivisionError")
                            /\ UNCHANGED num_dwells
                       ELSE /\ num_dwells' = NumDwells(NumSamples(rate, tNum),
                                                       DwellSamples(rate, fswitch))
                            /\ pc' = "loop"
                            /\ UNCHANGED <<exc, result, p_avg>>

\* ---- run_total_power_int: sdr.read_samples_async(p_tot_callback, ...) ----
\* One delivered block: the limit_calls wrapper counts it and cancels the
\* stream when the budget is reached, then p_tot_callback adds the block's
\* power to the global p_tot and increments the global cnt.  No block is
\* delivered once the stream is canceled.  A failed read raises.
StreamCallback ==
    /\ pc = "stream" /\ ~canceled
    /\ UNCHANGED sess
    /\ UNCHANGED stale
    /\ UNCHANGED fin
    /\ UNCHANGED gpioAtClose
    /\ UNCHANGED fswVars
    /\ UNCHANGED <<cfgVars, sdrVars, locVars, dckVars>>
    /\ UNCHANGED <<opens, closeCalls, cfgWrites, dwellLog>>
    /\ reads' = reads + 1
    /\ hwOps' = hwOps + 1
    /\ \/ \E pw \in Powers :
            /\ num_calls' = num_calls + 1
            /\ canceled' = LimitReached(num_calls + 1, N, num_samp)
            /\ p_tot' = p_tot + pw
            /\ g_cnt' = g_cnt + 1
            /\ blocks' = Append(blocks, pw)
            /\ UNCHANGED <<pc, exc, result, p_avg>>
       \/ /\ Raise("IOError")
          /\ UNCHANGED <<glbVars, blocks>>

\* read_samples_async returns once the stream is canceled
StreamEnd ==
    /\ pc = "stream" /\ StreamOver(canceled)
    /\ UNCHANGED sess
    /\ UNCHANGED stale
    /\ UNCHANGED fin
    /\ UNCHANGED blocks
    /\ UNCHANGED gpioAtClose
    /\ UNCHANGED fswVars
    /\ pc' = "finalize"
    /\ UNCHANGED <<cfgVars, sdrVars, locVars, glbVars, dckVars, hstVars, exc, result, p_avg>>

\* ---- dicke: one iteration of for i in range(N // num_samp) ----
\* set_gpio_bit(4, flipflop), read_samples, the three appends, the toggle.
\* curtime is recorded as the position of the iteration in time.
DickeIter ==
    /\ pc = "loop" /\ driver = "dicke"
    /\ UNCHANGED sess
    /\ UNCHANGED stale
    /\ UNCHANGED fin
    /\ UNCHANGED blocks
    /\ UNCHANGED gpioAtClose
    /\ UNCHANGED fswVars
    /\ UNCHANGED <<cfgVars, glbVars>>
    /\ UNCHANGED <<sdrBound, close_sdr, devOpen, sdrRs, sdrFc>>
    /\ UNCHANGED <<N, N_dwell, num_loops, num_dwells, j, cnt, cntOn, cntOff>>
    /\ UNCHANGED <<opens, closeCalls, cfgWrites, dwellLog>>
    /\ IF i < DickeLoops(N, num_samp)
         THEN \/ \E pw \in Powers :
                    /\ gpio' = GpioLevel(flipflop)
                    /\ gpioAtRead' = Append(gpioAtRead, GpioLevel(flipflop))
                    /\ reads' = reads + 1
                    /\ hwOps' = hwOps + 2
                    /\ ts' = Append(ts, i)
                    /\ ps' = Append(ps, pw)
                    /\ noise_on' = Append(noise_on, flipflop)
                    /\ flipflop' = 1 - flipflop
                    /\ i' = i + 1
                    /\ UNCHANGED <<pc, exc, result, p_avg>>
              \/ \* set_gpio_bit fails
                 /\ Raise("IOError")
                 /\ hwOps' = hwOps + 1
                 /\ UNCHANGED <<gpio, reads, i, dckVars>>
              \/ \* read_samples fails
                 /\ Raise("IOError")
                 /\ gpio' = GpioLevel(flipflop)
                 /\ reads' = reads + 1
                 /\ hwOps' = hwOps + 2
                 /\ UNCHANGED <<i, dckVars>>
         ELSE /\ pc' = "finalize"
              /\ UNCHANGED <<gpio, reads, hwOps, i, dckVars, exc, result, p_avg>>

\* ---- run_spectrum_int: one iteration of for j in range(num_loops) ----
SpectrumIter ==
    /\ pc = "loop" /\ driver = "run_spectrum_int"
    /\ UNCHANGED sess
    /\ UNCHANGED stale
    /\ UNCHANGED fin
    /\ UNCHANGED blocks
    /\ UNCHANGED gpioAtClose
    /\ UNCHANGED fswVars
    /\ UNCHANGED <<cfgVars, sdrVars, glbVars, dckVars>>
    /\ UNCHANGED <<N, N_dwell, num_loops, num_dwells, i, cntOn, cntOff>>
    /\ UNCHANGED <<opens, closeCalls, cfgWrites, dwellLog>>
    /\ IF j < num_loops
         THEN /\ reads' = reads + 1
              /\ hwOps' = hwOps + 1
              /\ \/ /\ cnt' = cnt + 1
                    /\ j' = j + 1
                    /\ UNCHANGED <<pc, exc, result, p_avg>>
                 \/ /\ Raise("IOError")
                    /\ UNCHANGED <<cnt, j>>
         ELSE /\ pc' = "finalize"
              /\ UNCHANGED <<reads, hwOps, cnt, j, exc, result, p_avg>>

\* ---- run_fswitch_int: head of for i in range(num_dwells) ----
\* Retunes to fc on even i and to fthrow on odd i, then enters the inner loop.
DwellStart ==
    /\ pc = "loop" /\ driver = "run_fswitch_int"
    /\ UNCHANGED sess
    /\ UNCHANGED stale
    /\ UNCHANGED fin
    /\ UNCHANGED blocks
    /\ UNCHANGED gpioAtClose
    /\ UNCHANGED <<cfgVars, glbVars, dckVars>>
    /\ UNCHANGED <<sdrBound, close_sdr, devOpen, sdrRs, gpio>>
    /\ UNCHANGED <<N, N_dwell, num_loops, num_dwells, i, cnt, cntOn, cntOff>>
    /\ UNCHANGED <<opens, closeCalls, reads, centerOn, centerOff>>
    /\ IF i < num_dwells
         THEN /\ hwOps' = hwOps + 1
              /\ \/ /\ sdrFc' = TuneTarget(i)
                    /\ cfgWrites' = cfgWrites + 1
                    /\ dwellLog' = Append(dwellLog, <<TuneTarget(i), 0>>)
                    /\ fswLog' = Append(fswLog, [op |-> "tune", dwell |-> i,
                                                 fc |-> TuneTarget(i), acc |-> "none"])
                    /\ j' = 0
                    /\ pc' = "dwell"
                    /\ UNCHANGED <<exc, result, p_avg>>
                 \/ /\ Raise("IOError")
                    /\ UNCHANGED <<sdrFc, cfgWrites, dwellLog, fswLog, j>>
         ELSE /\ pc' = "finalize"
              /\ UNCHANGED <<sdrFc, cfgWrites, dwellLog, fswLog, hwOps, j,
                             exc, result, p_avg>>

\* ---- run_fswitch_int: one iteration of for j in range(num_loops) ----
\* The block goes to the on-accumulator when tick, else to the off one.
DwellIter ==
    /\ pc = "dwell"
    /\ UNCHANGED sess
    /\ UNCHANGED stale
    /\ UNCHANGED fin
    /\ UNCHANGED blocks
    /\ UNCHANGED gpioAtClose
    /\ UNCHANGED <<cfgVars, sdrVars, glbVars, dckVars>>
    /\ UNCHANGED <<N, N_dwell, num_loops, num_dwells, cnt>>
    /\ UNCHANGED <<opens, closeCalls, cfgWrites, centerOn, centerOff>>
    /\ IF j < num_loops
         THEN /\ reads' = reads + 1
              /\ hwOps' = hwOps + 1
              /\ UNCHANGED i
              /\ \/ /\ cntOn' = IF Accumulator(i) = "on" THEN cntOn + 1 ELSE cntOn
                    /\ cntOff' = IF Accumulator(i) = "on" THEN cntOff ELSE cntOff + 1
                    /\ dwellLog' = [dwellLog EXCEPT ![Len(dwellLog)] =
                                        <<@[1], @[2] + 1>>]
                    /\ fswLog' = Append(fswLog, [op |-> "read", dwell |-> i,
                                                 fc |-> sdrFc, acc |-> Accumulator(i)])
                    /\ j' = j + 1
                    /\ UNCHANGED <<pc, exc, result, p_avg>>
                 \/ /\ Raise("IOError")
                    /\ UNCHANGED <<cntOn, cntOff, dwellLog, fswLog, j>>
         ELSE /\ i' = i + 1
              /\ pc' = "loop"
              /\ UNCHANGED <<reads, hwOps, cntOn, cntOff, dwellLog, fswLog, j,
                             exc, result, p_avg>>

\* ---- what follows the loop, up to the close inside the try block ----

\* variant: the sum is divided by the number of blocks only
Average_percount(sum, ns, c) == <<sum, c>>

\* p_avg = p_tot / (num_samp * cnt), kept as <<numerator, denominator>>
Average(sum, ns, c) == <<sum, ns * c>>

\* np.save(..., time_str ...) of dicke: time_str is only bound by an iteration
\* of the loop, and the write itself may fail.
SaveOutcomes(iters) == IF iters = 0 THEN {"UnboundLocalError"} ELSE {"ok", "IOError"}

\* p_xx_on /= cntOn; p_xx_off /= cntOff on numpy arrays: a zero count gives
\* NaN bins and a warning, no exception.
FswitchResult(on, off) == IF on = 0 \/ off = 0 THEN "nan" ELSE "spectra"

Finalize ==
    /\ pc = "finalize"
    /\ UNCHANGED sess
    /\ UNCHANGED stale
    /\ UNCHANGED fin
    /\ UNCHANGED blocks
    /\ UNCHANGED gpioAtClose
    /\ UNCHANGED <<cfgVars, sdrVars, locVars, glbVars, dckVars, hstVars, fswLog>>
    /\ IF driver = "run_fswitch_int"
         THEN centerOn' = CenterOf("on") /\ centerOff' = CenterOf("off")
         ELSE UNCHANGED <<centerOn, centerOff>>
    /\ CASE driver = "run_total_power_int" ->
              \* p_avg = p_tot / (num_samp * cnt)
              IF num_samp * g_cnt = 0
                THEN Raise("ZeroDivisionError")
                ELSE /\ p_avg' = Average(p_tot, num_samp, g_cnt)
                     /\ result' = "p_avg"
                     /\ pc' = "tryclose"
                     /\ UNCHANGED exc
         [] driver = "dicke" ->
              \E o \in SaveOutcomes(i) :
                IF o = "ok"
                  THEN /\ result' = "timeseries"
                       /\ pc' = "tryclose"
                       /\ UNCHANGED <<exc, p_avg>>
                  ELSE Raise(o)
         [] driver = "run_spectrum_int" ->
              \* p_xx_tot /= cnt, with cnt = num_loops >= 1
              /\ result' = "spectrum"
              /\ pc' = "tryclose"
              /\ UNCHANGED <<exc, p_avg>>
         [] driver = "run_fswitch_int" ->
              /\ result' = FswitchResult(cntOn, cntOff)
              /\ pc' = "tryclose"
              /\ UNCHANGED <<exc, p_avg>>

\* if close_sdr: [dicke: sdr.set_gpio_bit(4, 0)] sdr.close()
TryClose ==
    /\ pc = "tryclose"
    /\ UNCHANGED sess
    /\ UNCHANGED stale
    /\ UNCHANGED fin
    /\ UNCHANGED blocks
    /\ UNCHANGED fswVars
    /\ UNCHANGED <<cfgVars, locVars, glbVars, dckVars>>
    /\ UNCHANGED <<sdrBound, close_sdr, sdrRs, sdrFc>>
    /\ UNCHANGED <<opens, cfgWrites, reads, dwellLog>>
    /\ IF TryCloses(close_sdr)
         THEN \/ /\ gpio' = IF driver = "dicke" THEN 0 ELSE gpio
                 /\ gpioAtClose' = Append(gpioAtClose,
                                          IF driver = "dicke" THEN 0 ELSE gpio)
                 /\ hwOps' = hwOps + 1
                 /\ closeCalls' = closeCalls + 1
                 /\ devOpen' = FALSE
                 /\ pc' = "finally"
                 /\ UNCHANGED <<exc, result, p_avg>>
              \/ \* set_gpio_bit(4, 0) fails
                 /\ driver = "dicke"
                 /\ Raise("IOError")
                 /\ hwOps' = hwOps + 1
                 /\ UNCHANGED <<gpio, gpioAtClose, closeCalls, devOpen>>
         ELSE /\ pc' = "finally"
              /\ UNCHANGED <<gpio, gpioAtClose, hwOps, closeCalls, devOpen,
                             exc, result, p_avg>>

\* finally: if sdr is not None and close_sdr: sdr.close()
\* then the value is returned, or the exception reaches the caller.
Finally ==
    /\ pc = "finally"
    /\ UNCHANGED sess
    /\ UNCHANGED stale
    /\ UNCHANGED fin
    /\ UNCHANGED blocks
    /\ UNCHANGED fswVars
    /\ UNCHANGED <<cfgVars, locVars, glbVars, dckVars>>
    /\ UNCHANGED <<sdrBound, close_sdr, sdrRs, sdrFc, gpio>>
    /\ UNCHANGED <<opens, cfgWrites, reads, dwellLog, exc, result, p_avg>>
    /\ IF FinallyCloses(sdrBound, close_sdr)
         THEN /\ closeCalls' = closeCalls + 1
              /\ gpioAtClose' = Append(gpioAtClose, gpio)
              /\ hwOps' = hwOps + 1
              /\ devOpen' = FALSE
         ELSE UNCHANGED <<closeCalls, gpioAtClose, hwOps, devOpen>>
    /\ pc' = IF exc = "none" THEN "returned" ELSE "raised"

Next == Call \/ CallOver \/ GetSdr
            \/ Finalize \/ TryClose \/ Finally
            \/ StreamCallback \/ StreamEnd \/ DickeIter \/ SpectrumIter
            \/ DwellStart \/ DwellIter
            \/ SetupTotalPower \/ SetupDicke \/ SetupSpectrum \/ SetupFswitch

Spec == Init /\ [][Next]_vars

\* ---- two sessions of run_total_power_int in one process ----
\* Each session (a thread with its own handle) runs lines 83-117; p_tot and cnt
\* are the module globals, N, num_samp and the call count of its own decorated
\* callback are its own.  ownSum and ownCnt record what was delivered to the
\* session's own callback.

seqVars == <<pc, cfgVars, sdrVars, locVars, dckVars, hstVars, fswVars,
             gpioAtClose, blocks, stale, exc, result, p_avg, num_calls, canceled>>

ConcInit ==
    /\ InitSeq /\ fin = NoFin
    /\ sess \in [Sessions -> {[NoSession EXCEPT !.at = "reset", !.ns = ns, !.n = n] :
                                ns \in 1 .. MaxNumSamp,
                                n \in {NumSamples(r, t) : r \in 1 .. MaxRate,
                                                          t \in 1 .. MaxTNum}}]

\* global p_tot, cnt; p_tot = 0.0; cnt = 0
SessReset(s) ==
    /\ sess[s].at = "reset"
    /\ UNCHANGED fin
    /\ p_tot' = 0 /\ g_cnt' = 0
    /\ sess' = [sess EXCEPT ![s].at = "stream"]
    /\ UNCHANGED seqVars

\* one block delivered to the session's callback
SessCallback(s) ==
    /\ sess[s].at = "stream" /\ ~sess[s].canceled
    /\ UNCHANGED fin
    /\ \E pw \in Powers :
        /\ p_tot' = p_tot + pw
        /\ g_cnt' = g_cnt + 1
        /\ sess' = [sess EXCEPT ![s].calls = @ + 1,
                                ![s].canceled = LimitReached(sess[s].calls + 1,
                                                             sess[s].n, sess[s].ns),
                                ![s].ownSum = @ + pw,
                                ![s].ownCnt = @ + 1]
    /\ UNCHANGED seqVars

\* read_samples_async has returned: p_avg = p_tot / (num_samp * cnt)
SessAverage(s) ==
    /\ sess[s].at = "stream" /\ StreamOver(sess[s].canceled)
    /\ UNCHANGED fin
    /\ sess' = [sess EXCEPT ![s].at = IF sess[s].ns * g_cnt = 0 THEN "raised" ELSE "returned",
                            ![s].avg = IF sess[s].ns * g_cnt = 0 THEN <<>>
                                       ELSE Average(p_tot, sess[s].ns, g_cnt)]
    /\ UNCHANGED <<seqVars, p_tot, g_cnt>>

ConcNext == \E s \in Sessions : SessReset(s) \/ SessCallback(s) \/ SessAverage(s)

SpecConc == ConcInit /\ [][ConcNext]_vars

\* ---- accumulating and finalizing one spectrum ----
\* run_spectrum_int has one spectrum (freqs, p_xx_tot, cnt); run_fswitch_int
\* has two (freqs_on, p_xx_on, cntOn and freqs_off, p_xx_off, cntOff), each
\* treated the same way, and fin follows one of them.  Frequencies are kept as
\* numerators over nbins, averaged powers as <<numerator, denominator>>; a
\* denominator of 0 is numpy's NaN.

\* largest number of bins and largest center frequency explored
MaxBins == 4
MaxCenter == 1

\* the sample frequencies welch(..., nfft=nbins, return_onesided=False)
\* returns, numpy's fftfreq(n, 1 / fs): 0, 1, ..., then -(n // 2), ..., -1,
\* each times fs / n
FftFreq(n, fs) ==
    [m \in 1 .. n |-> IF m - 1 < (n - 1) \div 2 + 1 THEN (m - 1) * fs
                                                      ELSE (m - 1 - n) * fs]

\* variant: the array is left in welch's order
FftShift_unshifted(x) == x

\* np.fft.fftshift(x): np.roll(x, len(x) // 2)
FftShift(x) ==
    [m \in 1 .. Len(x) |-> x[((m - 1 + Len(x) - Len(x) \div 2) % Len(x)) + 1]]

\* np.zeros(nbins)
Zeros(n) == [m \in 1 .. n |-> 0]

\* the number of welch calls that feed the spectrum: num_loops of
\* run_spectrum_int, num_loops of one dwell of run_fswitch_int
FinPlans(d, fs) ==
    IF d = "run_spectrum_int"
      THEN {SpectrumLoops(NumSamples(fs, t), ns) :
               t \in 1 .. MaxTNum, ns \in 1 .. MaxNumSamp}
      ELSE {DwellLoops(DwellSamples(fs, fsw), ns) :
               fsw \in {f \in 1 .. MaxFswitch : f <= fs}, ns \in 1 .. MaxNumSamp}

\* the arrays are allocated: freqs = np.zeros(nbins), p_xx_tot = np.zeros(nbins)
FinInit ==
    /\ InitSeq /\ sess = [s \in Sessions |-> NoSession]
    /\ \E d \in {"run_spectrum_int", "run_fswitch_int"}, n \in 1 .. MaxBins,
          fs \in 1 .. MaxRate, c \in 0 .. MaxCenter :
         \E pl \in FinPlans(d, fs), px \in [1 .. n -> Powers] :
            fin = [NoFin EXCEPT !.at = "loop", !.d = d, !.nbins = n, !.fs = fs,
                                !.center = c, !.plan = pl, !.px = px,
                                !.freqs = Zeros(n), !.p_xx = Zeros(n)]

finRest == <<seqVars, p_tot, g_cnt, sess>>

\* freqs, p_xx = welch(iq, fs=rate, nfft=nbins, ...); p_xx_tot += p_xx; cnt += 1
FinWelch ==
    /\ fin.at = "loop" /\ fin.done < fin.plan
    /\ fin' = [fin EXCEPT !.freqs = FftFreq(fin.nbins, fin.fs),
                          !.p_xx = [m \in 1 .. fin.nbins |-> fin.p_xx[m] + fin.px[m]],
                          !.done = fin.done + 1]
    /\ UNCHANGED finRest

\* p_xx_tot /= cnt (numpy: a zero count gives NaN bins, no exception)
FinAverage ==
    /\ fin.at = "loop" /\ fin.done = fin.plan
    /\ fin' = [fin EXCEPT !.at = "shift",
                          !.binFreqs = fin.freqs, !.binSums = fin.p_xx,
                          !.p_mean = [m \in 1 .. fin.nbins |-> <<fin.p_xx[m], fin.done>>]]
    /\ UNCHANGED finRest

\* freqs = np.fft.fftshift(freqs); p_xx_tot = np.fft.fftshift(p_xx_tot)
FinShift ==
    /\ fin.at = "shift"
    /\ fin' = [fin EXCEPT !.at = "center",
                          !.freqs = FftShift(fin.freqs),
                          !.p_mean = FftShift(fin.p_mean)]
    /\ UNCHANGED finRest

\* freqs += fc
FinCenter ==
    /\ fin.at = "center"
    /\ fin' = [fin EXCEPT !.at = "psd",
                          !.freqs = [m \in 1 .. Len(fin.freqs) |->
                                        fin.freqs[m] + fin.nbins * fin.center]]
    /\ UNCHANGED finRest

\* p_avg_hz = p_xx_tot * ((win.sum()**2) / (win*win).sum()) / rate, in units
\* of the window factor
FinPsd ==
    /\ fin.at = "psd"
    /\ fin' = [fin EXCEPT !.at = "done",
                          !.p_hz = [m \in 1 .. Len(fin.p_mean) |->
                                      <<fin.p_mean[m][1], fin.p_mean[m][2] * fin.fs>>]]
    /\ UNCHANGED finRest

FinNext == FinWelch \/ FinAverage \/ FinShift \/ FinCenter \/ FinPsd

SpecFinalize == FinInit /\ [][FinNext]_vars

\* ======================= properties =======================

\* the call has returned, or its exception has reached the caller
Ended == pc \in {"returned", "raised"}

\* the driver opened the Sample Source: sdr was None and get_sdr returned a handle
OwnHandle == ~supplied /\ sdrBound

\* C1: when the driver opened the Sample Source itself, the handle has been
\* closed by the time the call returns or its error reaches the caller, on
\* every exit path.
C1_OwnHandleClosed == (Ended /\ OwnHandle) => (closeCalls >= 1 /\ ~devOpen)

\* C1 witness: an own handle, a block read that failed, the error at the caller
C1_Witness == /\ pc = "raised" /\ OwnHandle /\ exc = "IOError"
              /\ reads >= 1 /\ closeCalls >= 1 /\ ~devOpen

\* C2: a handle opened by the driver is released exactly once per call on
\* every exit path; close is never invoked a second time on it.
C2_ClosedExactlyOnce == (Ended /\ OwnHandle) => closeCalls = 1

\* C3: a handle supplied by the caller is never closed by the driver, on any
\* exit path, for any sequence of reads and switch actions.
C3_SuppliedNeverClosed == supplied => (closeCalls = 0 /\ devOpen)

\* C3 witness: a supplied handle, blocks read, a failed read, the error at the caller
C3_Witness == /\ pc = "raised" /\ supplied /\ exc = "IOError"
              /\ reads >= 2 /\ closeCalls = 0

\* C4: run_fswitch_int rejects integration_time < 2 / switch_rate with a
\* configuration error before any hardware interaction: nothing is opened,
\* and a supplied handle gets no rate/frequency/gain write and no read.
C4_RejectedBeforeHardware ==
    (driver = "run_fswitch_int" /\ pc # "idle" /\ tNum * fswitch < 2 * TDen)
        => /\ pc = "raised" /\ exc = "AssertionError" /\ result = "none"
           /\ hwOps = 0 /\ opens = 0 /\ cfgWrites = 0 /\ reads = 0
           /\ closeCalls = 0 /\ devOpen = supplied /\ sdrFc = "prev"

\* C4 witness: a rejected call that was given an open handle
C4_Witness == /\ driver = "run_fswitch_int" /\ pc = "raised" /\ supplied
              /\ exc = "AssertionError" /\ tNum * fswitch < 2 * TDen

\* the acquisition loop of the driver has finished and nothing has failed
LoopDone(d) == driver = d /\ pc = "finalize"

\* floor(sample_rate * integration_time) and floor(sample_rate / switch_rate),
\* written out from the arguments of the call
ReqSamples(rs) == (rs * tNum) \div TDen
ReqDwell == rate \div fswitch

\* C5: in run_fswitch_int every configuration that passes the check
\* integration_time >= 2 / switch_rate yields at least one spectrum on each
\* frequency when the acquisition loop finishes.
C5_BothFrequenciesSeen ==
    LoopDone("run_fswitch_int") => (cntOn >= 1 /\ cntOff >= 1)

\* C6: no driver returns a result computed from an accumulator that was
\* finalized with count 0.
C6_NoResultFromEmptyAccumulator ==
    pc = "returned" =>
        /\ driver = "run_total_power_int" => g_cnt >= 1
        /\ driver = "run_spectrum_int" => cnt >= 1
        /\ driver = "run_fswitch_int" => (cntOn >= 1 /\ cntOff >= 1)

\* C7: in run_total_power_int the number of blocks added to the power
\* accumulator, the final cnt, equals floor(N / num_samp) with
\* N = floor(sample_rate * integration_time).
C7_TotalPowerBlockCount ==
    LoopDone("run_total_power_int") => g_cnt = ReqSamples(sdrRs) \div num_samp

\* C8: run_spectrum_int reads and accumulates exactly floor(N / num_samp) + 1
\* blocks, so the samples accumulated are never fewer than N.
C8_SpectrumBlockCount ==
    /\ driver = "run_spectrum_int" => reads <= ReqSamples(rate) \div num_samp + 1
    /\ LoopDone("run_spectrum_int") =>
          /\ cnt = ReqSamples(rate) \div num_samp + 1
          /\ reads = cnt
          /\ cnt * num_samp >= ReqSamples(rate)

\* C8 witness: the loop is over after two or more blocks, N not a multiple of num_samp
C8_Witness == /\ LoopDone("run_spectrum_int") /\ cnt >= 2
              /\ ReqSamples(rate) % num_samp # 0
              /\ cnt * num_samp > ReqSamples(rate)

\* C9: run_fswitch_int executes floor(N / N_dwell) dwells; dwell i is tuned to
\* fc when i is even and to fthrow when i is odd, starting with fc, and every
\* dwell reads exactly floor(N_dwell / num_samp) blocks.
C9_DwellSequence ==
    LoopDone("run_fswitch_int") =>
        /\ Len(dwellLog) = ReqSamples(rate) \div ReqDwell
        /\ \A k \in 1 .. Len(dwellLog) :
              /\ dwellLog[k][1] = IF (k - 1) % 2 = 0 THEN "fc" ELSE "fthrow"
              /\ dwellLog[k][2] = ReqDwell \div num_samp

\* C9 witness: three or more dwells of two or more blocks each were executed
C9_Witness == /\ LoopDone("run_fswitch_int") /\ Len(dwellLog) >= 3
              /\ dwellLog[3][2] >= 2

\* C10: in run_fswitch_int the blocks read across all dwells, cntOn + cntOff
\* = num_dwells * blocks_per_dwell at the end, never exceed floor(N / num_samp).
C10_TotalBlocksBounded ==
    driver = "run_fswitch_int" =>
        /\ reads <= ReqSamples(rate) \div num_samp
        /\ cntOn + cntOff <= reads
        /\ pc = "finalize" =>
              /\ cntOn + cntOff = reads
              /\ cntOn + cntOff
                    = (ReqSamples(rate) \div ReqDwell) * (ReqDwell \div num_samp)

\* C10 witness: the loop is over with blocks on both frequencies
C10_Witness == /\ LoopDone("run_fswitch_int") /\ cntOn >= 2 /\ cntOff >= 1
               /\ cntOn + cntOff <= ReqSamples(rate) \div num_samp

\* C11: in run_fswitch_int every block goes to the accumulator keyed by the
\* frequency the handle is tuned to when it is read (fc: on, fthrow: off); the
\* retune of a dwell precedes every read of that dwell with no retune in
\* between; the on-result is centered on fc and the off-result on fthrow.
C11_BlocksKeyedBySwitchState ==
    driver = "run_fswitch_int" =>
        /\ \A k \in 1 .. Len(fswLog) :
              fswLog[k].op = "read" =>
                 /\ fswLog[k].acc = "on" <=> fswLog[k].fc = "fc"
                 /\ fswLog[k].acc = "off" <=> fswLog[k].fc = "fthrow"
                 /\ \E m \in 1 .. (k - 1) :
                       /\ fswLog[m].op = "tune"
                       /\ fswLog[m].dwell = fswLog[k].dwell
                       /\ fswLog[m].fc = fswLog[k].fc
                       /\ \A q \in (m + 1) .. k : fswLog[q].op = "read"
        /\ \A k, m \in 1 .. Len(fswLog) :
              (fswLog[k].op = "tune" /\ fswLog[m].op = "tune" /\ k # m)
                 => fswLog[k].dwell # fswLog[m].dwell
        /\ pc \in {"tryclose", "returned"} =>
              (centerOn = "fc" /\ centerOff = "fthrow")

\* C11 witness: a returned call with two blocks in one dwell and blocks on both
\* frequencies
C11_Witness ==
    /\ driver = "run_fswitch_int" /\ pc = "returned"
    /\ \E k \in 1 .. Len(fswLog) - 1 :
          /\ fswLog[k].op = "read" /\ fswLog[k + 1].op = "read"
    /\ \E k \in 1 .. Len(fswLog) : fswLog[k].op = "read" /\ fswLog[k].acc = "off"

\* s is an initial part of t
IsPrefix(s, t) == Len(s) <= Len(t) /\ \A k \in 1 .. Len(s) : s[k] = t[k]

\* C12 (state part): in dicke the three sequences have one entry per block
\* acquired so far, the flag of a block is the GPIO level set just before it
\* was read, the flags alternate, and on normal completion there are
\* floor(N / num_samp) entries.
C12_SeriesShape ==
    driver = "dicke" =>
        /\ Len(ts) = i /\ Len(ps) = i /\ Len(noise_on) = i /\ Len(gpioAtRead) = i
        /\ i <= reads
        /\ \A k \in 1 .. Len(noise_on) : noise_on[k] = gpioAtRead[k]
        /\ \A k \in 1 .. Len(noise_on) - 1 : noise_on[k + 1] = 1 - noise_on[k]
        /\ \A k \in 1 .. Len(ts) - 1 : ts[k] < ts[k + 1]
        /\ pc = "finalize" => Len(ts) = ReqSamples(rate) \div num_samp

\* C12 (step part): during a call of dicke the sequences only grow at the end
C12_AppendOnly ==
    (driver = "dicke" /\ pc # "idle" /\ pc' # "idle") =>
        /\ IsPrefix(ts, ts') /\ IsPrefix(ps, ps') /\ IsPrefix(noise_on, noise_on')

\* C12: the time series of dicke are parallel, append-only, in acquisition
\* order, flagged with the GPIO level in force at each read, alternating, and
\* floor(N / num_samp) long on normal completion.
C12_DickeTimeSeries == [] C12_SeriesShape /\ [][C12_AppendOnly]_vars

\* C12 witness: dicke has finished its loop after three or more blocks
C12_Witness == /\ LoopDone("dicke") /\ Len(noise_on) >= 3
               /\ noise_on[1] = 1 /\ noise_on[2] = 0 /\ noise_on[3] = 1

\* C13: when dicke opened the Sample Source itself, the GPIO switch line is at
\* level 0 whenever the handle is released, on every exit path.
C13_GpioLowBeforeRelease ==
    (driver = "dicke" /\ OwnHandle) =>
        \A k \in 1 .. Len(gpioAtClose) : gpioAtClose[k] = 0

\* C14: when the driver opens the Sample Source itself and the device opens
\* but a write of rate, frequency or gain inside get_sdr then fails, the
\* opened device is closed before the error reaches the caller.
C14_FailedConfigureClosesDevice ==
    (pc = "raised" /\ ~supplied /\ opens >= 1 /\ ~sdrBound)
        => (~devOpen /\ closeCalls >= 1)

\* C15 (state part): while an error is in flight the driver is in its finally
\* clause or has raised, and holds no result; a call that returned had no error
C15_NoPartialResult ==
    /\ exc # "none" => (pc \in {"finally", "raised"} /\ result = "none" /\ p_avg = <<>>)
    /\ pc = "returned" => exc = "none"

\* C15 (step part): after a failure no block is read, no switch action is
\* applied, and the same error is the one that reaches the caller
C15_AbortStep ==
    (exc # "none" /\ pc # "raised") =>
        /\ reads' = reads /\ cfgWrites' = cfgWrites /\ gpio' = gpio
        /\ fswLog' = fswLog /\ gpioAtRead' = gpioAtRead
        /\ exc' = exc /\ pc' = "raised"

\* C15: a failed block read or switch action aborts the integration: nothing
\* is read or switched afterwards, the same error reaches the caller, and no
\* partial result is returned.
C15_FailureAborts == [] C15_NoPartialResult /\ [][C15_AbortStep]_vars

\* C15 witness: dicke failed on a read after acquiring a block, and has raised
C15_Witness == /\ pc = "raised" /\ driver = "dicke" /\ exc = "IOError"
               /\ i >= 1 /\ reads = i + 1

\* C16: two concurrent sessions of run_total_power_int do not interfere: each
\* returns the sum of the powers delivered to its own callback over
\* num_samp times the number of its own blocks, whatever the interleaving.
C16_SessionsIndependent ==
    \A s \in Sessions :
        /\ sess[s].at # "raised"
        /\ sess[s].at = "returned" =>
              sess[s].avg[1] * (sess[s].ns * sess[s].ownCnt)
                 = sess[s].ownSum * sess[s].avg[2]

\* C17 (state part): in run_total_power_int the driver computes the average
\* only once the stream has ended, from the sum and count the callbacks left;
\* every delivered block was counted once, in arrival order.
C17_ReadAfterStream ==
    driver = "run_total_power_int" =>
        /\ pc \in {"finalize", "tryclose"} => canceled
        /\ pc \in {"stream", "finalize", "tryclose"} =>
              (g_cnt = num_calls /\ g_cnt <= reads /\ p_tot <= MaxPower * g_cnt)
        /\ pc \in {"tryclose", "returned"} => p_avg = <<p_tot, num_samp * g_cnt>>

\* C17 (step part): during the call the sum and the count are changed only by
\* a callback invocation of the running stream, one block at a time, and by
\* nothing after the stream has ended.
C17_SingleWriter ==
    (driver = "run_total_power_int" /\ pc \notin {"idle", "try", "setup"}
        /\ (p_tot' # p_tot \/ g_cnt' # g_cnt))
        => /\ pc = "stream" /\ ~canceled /\ pc' = "stream"
           /\ g_cnt' = g_cnt + 1 /\ num_calls' = num_calls + 1
           /\ reads' = reads + 1 /\ p_tot' >= p_tot

PlannedReads ==
    CASE driver = "dicke" -> ReqSamples(rate) \div num_samp
      [] driver = "run_spectrum_int" -> ReqSamples(rate) \div num_samp + 1
      [] driver = "run_fswitch_int" ->
            IF ReqDwell = 0 THEN 0
            ELSE (ReqSamples(rate) \div ReqDwell) * (ReqDwell \div num_samp)
      [] OTHER -> 0

\* the driver never reads past its planned count and leaves the loop only
\* after exactly that many reads
C18_ExactlyPlanned ==
    driver \in {"dicke", "run_spectrum_int", "run_fswitch_int"} =>
        /\ reads <= PlannedReads
        /\ (pc \in {"finalize", "tryclose", "returned"}
              \/ (pc = "finally" /\ exc = "none")) => reads = PlannedReads

\* C18: dicke, run_spectrum_int and run_fswitch_int perform exactly their
\* planned number of block reads, never one more, then finalize and return;
\* once the loop is entered, only a failing device or file operation keeps the
\* driver from returning (AssertionError and the empty dwell plan end the call
\* before the loop).
C18_PlannedThenReturn ==
    driver \in {"dicke", "run_spectrum_int", "run_fswitch_int"} =>
        /\ C18_ExactlyPlanned
        /\ exc \notin {"none", "IOError"} =>
              \/ exc = "AssertionError" /\ hwOps = 0
              \/ exc = "ZeroDivisionError" /\ ReqDwell = 0 /\ reads = 0

\* the sum of a sequence of block powers
RECURSIVE SumOf(_)
SumOf(sq) == IF sq = <<>> THEN 0 ELSE Head(sq) + SumOf(Tail(sq))

\* C19: run_total_power_int returns (sum of the powers of the blocks given to
\* the callback) / (num_samp * number of those blocks), whatever the powers and
\* their order of arrival; when every block has power p this is p / num_samp.
C19_AdditiveAverage ==
    (driver = "run_total_power_int" /\ exc = "none" /\ Len(blocks) >= 1
        /\ pc \in {"tryclose", "finally", "returned"}) =>
        /\ Len(p_avg) = 2 /\ p_avg[2] # 0
        /\ p_avg[1] * (num_samp * Len(blocks)) = SumOf(blocks) * p_avg[2]
        /\ \A p \in Powers :
              (\A k \in 1 .. Len(blocks) : blocks[k] = p)
                 => p_avg[1] * num_samp = p * p_avg[2]

\* C19 witness: an average over three or more blocks of unequal power with
\* num_samp > 1 was returned
C19_Witness == /\ driver = "run_total_power_int" /\ pc = "returned"
               /\ Len(blocks) >= 3 /\ num_samp >= 2
               /\ blocks[1] # blocks[2] /\ SumOf(blocks) >= 2

\* the finalized spectrum has nbins frequencies and nbins powers, and bin k of
\* the accumulated spectrum is found at position (k + nbins // 2) mod nbins with
\* its frequency raised by the center frequency and its own averaged power
C20_BinsRotatedInPairs ==
    fin.at = "done" =>
        /\ Len(fin.freqs) = fin.nbins /\ Len(fin.p_hz) = fin.nbins
        /\ \A k \in 0 .. fin.nbins - 1 :
              LET m == ((k + fin.nbins \div 2) % fin.nbins) + 1
              IN  /\ fin.freqs[m] = fin.binFreqs[k + 1] + fin.nbins * fin.center
                  /\ fin.p_hz[m] = <<fin.binSums[k + 1], fin.done * fin.fs>>

\* the finalized frequency axis is strictly ascending
C20_AxisAscending ==
    fin.at = "done" =>
        \A m \in 1 .. fin.nbins - 1 : fin.freqs[m] < fin.freqs[m + 1]

\* C20: finalizing a spectrum moves bin k to position (k + nbins / 2) mod nbins
\* in the frequency axis and in the powers alike and adds the center frequency;
\* the axis has nbins entries, is strictly ascending, and every power stays
\* with its frequency.
C20_ShiftedAscendingAxis == C20_BinsRotatedInPairs /\ C20_AxisAscending

\* with one or more accumulated blocks the axis is the shifted welch axis
C20_AscendingWhenFed ==
    (fin.at = "done" /\ fin.done >= 1) =>
        \A m \in 1 .. fin.nbins - 1 : fin.freqs[m] < fin.freqs[m + 1]

\* C21: in every run_total_power_int call, whatever an earlier call left in
\* the globals (the sum of a finished call or the partial sum of a call that
\* ended in an error), the globals are zero when the stream starts, hold only
\* the blocks of this call afterwards, and the value returned is the sum of
\* this call's blocks over num_samp times their number.
C21_CallsIndependent ==
    driver = "run_total_power_int" =>
        /\ (pc = "stream" /\ blocks = <<>>) => (p_tot = 0 /\ g_cnt = 0)
        /\ pc \in {"stream", "finalize", "tryclose"} =>
              (p_tot = SumOf(blocks) /\ g_cnt = Len(blocks))
        /\ pc = "returned" =>
              /\ Len(blocks) >= 1 /\ Len(p_avg) = 2
              /\ p_avg[1] * num_samp * Len(blocks) = p_avg[2] * SumOf(blocks)

\* C21 witness: a call that followed a call aborted after delivering blocks
\* returned the average of its own two or more blocks, all of power 0
C21_Witness == /\ driver = "run_total_power_int" /\ pc = "returned"
               /\ stale = "aborted sum"
               /\ Len(blocks) >= 2 /\ SumOf(blocks) = 0

C23_HandleOnReturn ==
    supplied =>
        /\ (driver = "run_total_power_int" /\ pc # "idle") =>
              (cfgWrites = 0 /\ sdrFc = "prev" /\ devOpen)
        /\ (driver = "run_fswitch_int" /\ pc = "returned") =>
              LET nd == ReqSamples(rate) \div ReqDwell
              IN  /\ sdrRs = rate /\ devOpen
                  /\ cfgWrites = 3 + nd
                  /\ sdrFc = IF nd % 2 = 0 THEN "fthrow" ELSE "fc"

\* no step of run_total_power_int changes the sample rate, the center
\* frequency or the number of writes of a caller-supplied handle
C23_TotalPowerWritesNothing ==
    (driver = "run_total_power_int" /\ supplied /\ driver' = driver) =>
        (sdrRs' = sdrRs /\ sdrFc' = sdrFc /\ cfgWrites' = cfgWrites)

\* C23: on a caller-supplied handle run_total_power_int never writes sample
\* rate, center frequency or gain, whereas run_fswitch_int writes all three
\* and returns with the handle tuned to the last dwell: fthrow when num_dwells
\* is even, fc when it is odd.
C23_HandleEffects == [] C23_HandleOnReturn /\ [][C23_TotalPowerWritesNothing]_vars

\* C23 witness: run_fswitch_int returned on a supplied handle after an even
\* number of dwells, leaving it on fthrow at a rate it has overwritten
C23_Witness == /\ driver = "run_fswitch_int" /\ supplied /\ pc = "returned"
               /\ Len(dwellLog) >= 2 /\ Len(dwellLog) % 2 = 0
               /\ sdrFc = "fthrow" /\ sdrRs >= 2
====
